---- MODULE Spec2Model ----
(***************************************************************************)
(* A model of api_layer_demo.py: the payment API in front of the legacy    *)
(* core-banking adapter.  Request handlers run on worker threads, so a     *)
(* handler is a sequence of steps that interleave with the steps of other  *)
(* requests; a background task (async_settle) runs on the thread of the    *)
(* request that added it, after that request's response was produced.      *)
(*                                                                         *)
(* Units: amounts are in cents (10000.00 is 1000000), FX rates are in      *)
(* hundredths (0.92 is 92).  time.time() and datetime.utcnow() both read   *)
(* the variable clock.  uuid4() yields a fresh id: the next index of the   *)
(* ledger.  An Optional value is a sequence of length 0 (None) or 1.       *)
(***************************************************************************)
EXTENDS Integers, Sequences, FiniteSets, TLC

\* ------------------------------------------------------------------ bounds
MaxClock == 1        \* clock ticks of Spec
MaxAudit == 3        \* a handler starts only while the audit log is shorter
MaxDeliveries == 3   \* POSTs made in Spec and SpecSeq
MaxSeqAudit == 4     \* as MaxAudit, in SpecSeq
MaxAdmitAudit == 2   \* as MaxAudit, in SpecAdmit
MaxBatch == 3        \* requests in one batch
MaxRateClock == 120  \* last clock value of SpecRate
MaxRaceClock == 30   \* last clock value of SpecRace
MaxSubmits == 12     \* requests submitted in SpecRate
MaxRaceSubmits == 11 \* requests submitted in SpecRace
MaxMetricsAudit == 3 \* as MaxAudit, in SpecMetrics
MaxLedgerAudit == 4  \* as MaxAudit, in SpecLedger
MaxLiveAudit == 4    \* as MaxAudit, in SpecLive

\* --------------------------------------------------------- program constants
RATE_LIMIT == 10
WINDOW == 60
FRAUD_AMOUNT == 1000000
SUSPICIOUS_ACCOUNTS == {"FAKE123", "TEST999"}
max_retries == 3

None == <<>>
Some(x) == <<x>>

Threads == {1, 2}
Users == {"demo"}
Urls == {"http://hook"}
\* What requests.post does on one attempt: it returns a response with a 2xx
\* status, returns a response with another status, or raises (transport
\* error, timeout).
Outcomes == {"2xx", "non2xx", "raise"}

VARIABLES
  payments,       \* cbs_adapter.payments: payment id -> record (ids are 1..Len)
  webhooks,       \* webhooks: payment id -> Optional url
  audit_log,      \* audit_log
  metrics,        \* metrics
  user_requests,  \* initiate_payment.user_requests: user -> list of timestamps
  clock,          \* the wall clock
  pc,             \* per thread: the place in the handler or task it runs
  loc,            \* per thread: the local variables of that handler or task
  resp,           \* per thread: the response to the request it serves or served last
  deliveries,     \* the POSTs made by requests.post, with what came back
  passed,         \* the timestamps appended at line 208, per user
  sent            \* per thread: what its latest send_webhook call returned

vars == <<payments, webhooks, audit_log, metrics, user_requests, clock,
          pc, loc, resp, deliveries, passed, sent>>

\* ------------------------------------------------------------------ helpers
PaymentRequest(from, to, amount, currency, target) ==
  [from_account |-> from, to_account |-> to, amount |-> amount,
   currency |-> currency, target_currency |-> target]

\* The FX table, rates in hundredths.
FX_RATES ==
  [p \in {<<"USD", "EUR">>, <<"EUR", "USD">>, <<"USD", "GBP">>,
          <<"GBP", "USD">>, <<"EUR", "GBP">>, <<"GBP", "EUR">>} |->
     CASE p = <<"USD", "EUR">> -> 92
       [] p = <<"EUR", "USD">> -> 109
       [] p = <<"USD", "GBP">> -> 80
       [] p = <<"GBP", "USD">> -> 125
       [] p = <<"EUR", "GBP">> -> 87
       [] p = <<"GBP", "EUR">> -> 115]

\* get_fx_rate with rate 1.0 for a pair the table lacks.
get_fx_rate_identity(src, tgt) ==
  IF <<src, tgt>> \in DOMAIN FX_RATES THEN Some(FX_RATES[<<src, tgt>>])
  ELSE Some(100)

get_fx_rate(src, tgt) ==
  IF src = tgt THEN Some(100)
  ELSE IF <<src, tgt>> \in DOMAIN FX_RATES THEN Some(FX_RATES[<<src, tgt>>])
  ELSE None

\* round(amount * fx_rate, 2) on cents and hundredths: n / 100 rounded to the
\* nearest integer, a tie going to the even one.
RoundHalfEven(n) ==
  LET q == n \div 100
      r == n % 100
  IN  IF r < 50 THEN q
      ELSE IF r > 50 THEN q + 1
      ELSE IF q % 2 = 0 THEN q ELSE q + 1

\* Truthy taking None for a value too.
TruthyAlways(opt) == TRUE

Truthy(opt) == opt # None /\ opt # Some("")

\* The FX block shared by the handlers: <<fx_rate, converted_amount,
\* target_currency>>; converted_amount is None when the rate is missing.
TargetCurrency(req) ==
  IF Truthy(req.target_currency) THEN req.target_currency[1] ELSE req.currency

NeedsConversion(req) ==
  Truthy(req.target_currency) /\ req.target_currency[1] # req.currency

FxRateOf(req) ==
  IF NeedsConversion(req) THEN get_fx_rate(req.currency, req.target_currency[1])
  ELSE None

ConvertedAmount(req) ==
  IF NeedsConversion(req)
  THEN IF FxRateOf(req) # None
       THEN Some(RoundHalfEven(req.amount * FxRateOf(req)[1]))
       ELSE None
  ELSE Some(req.amount)

\* log_action putting the entry at the head of the log.
log_action_prepend(log, user, action, details) ==
  <<[timestamp |-> clock, user |-> user, action |-> action, details |-> details]>>
  \o log

log_action(log, user, action, details) ==
  Append(log, [timestamp |-> clock, user |-> user, action |-> action,
               details |-> details])

HTTPException(code, detail) ==
  [kind |-> "HTTPException", status_code |-> code, detail |-> detail]

PaymentStatus(pid, status, stime, req, fx, conv, tgt) ==
  [kind |-> "PaymentStatus", payment_id |-> pid, status |-> status,
   settlement_time |-> stime, amount |-> req.amount, currency |-> req.currency,
   fx_rate |-> fx, converted_amount |-> conv, target_currency |-> tgt]

NoLocals ==
  [user |-> None, req |-> None, now |-> None, user_reqs |-> None,
   payment_id |-> None, status |-> None, settlement_time |-> None,
   url |-> None, attempt |-> None, delay |-> None,
   batch |-> None, results |-> None, success |-> None, failed |-> None,
   total |-> None]

Return(t, response) ==
  /\ pc' = [pc EXCEPT ![t] = "idle"]
  /\ loc' = [loc EXCEPT ![t] = NoLocals]
  /\ resp' = [resp EXCEPT ![t] = response]

Goto(t, label, locals) ==
  /\ pc' = [pc EXCEPT ![t] = label]
  /\ loc' = [loc EXCEPT ![t] = locals]

\* ------------------------------------------------------ LegacyCBSAdapter
\* AdapterInitiate putting the new record in the first place of the ledger.
AdapterInitiateFirst(ledger, req) ==
  <<[request |-> req, status |-> "pending", settlement_time |-> None]>> \o ledger

\* AdapterInitiate storing nothing.
AdapterInitiateDropped(ledger, req) == ledger

AdapterInitiate(ledger, req) ==
  Append(ledger, [request |-> req, status |-> "pending", settlement_time |-> None])

get_status(pid) ==
  IF pid \in DOMAIN payments THEN Some(payments[pid]) ELSE None

\* ---------------------------------------------------- POST /v1/payments
\* Pruned with <= in the place of <.
PrunedInclusive(reqs, now) == SelectSeq(reqs, LAMBDA x: now - x <= WINDOW)

\* The window's entries that are younger than WINDOW at time now.
Pruned(reqs, now) == SelectSeq(reqs, LAMBDA x: now - x < WINDOW)

\* FraudFlags stopping at the first rule that holds.
FraudFlagsFirstOnly(req) ==
  IF req.amount > FRAUD_AMOUNT THEN <<"high_amount">>
  ELSE IF req.to_account \in SUSPICIOUS_ACCOUNTS THEN <<"suspicious_account">>
  ELSE <<>>

FraudFlags(req) ==
  (IF req.amount > FRAUD_AMOUNT THEN <<"high_amount">> ELSE <<>>)
  \o (IF req.to_account \in SUSPICIOUS_ACCOUNTS THEN <<"suspicious_account">> ELSE <<>>)

\* Lines 194-203: count the request, read the clock and the user's window,
\* and build the pruned copy of the window.
IP_Begin(t, u, req) ==
  /\ pc[t] = "idle"
  /\ metrics' = [metrics EXCEPT !.total_requests = @ + 1]
  /\ Goto(t, "ip_limit",
          [NoLocals EXCEPT !.user = Some(u), !.req = Some(req), !.now = Some(clock),
                           !.user_reqs = Some(Pruned(user_requests[u], clock))])
  /\ resp' = [resp EXCEPT ![t] = None]
  /\ UNCHANGED <<payments, webhooks, audit_log, user_requests, clock,
                 deliveries, passed, sent>>

\* Line 194 is metrics["total_requests"] += 1: a read of the counter, an
\* addition and a write of the sum, which another thread's steps can come
\* between.  IP_LoadTotal and IP_StoreTotal are IP_Begin with that line in
\* its two halves: IP_LoadTotal reads the counter.
IP_LoadTotal(t, u, req) ==
  /\ pc[t] = "idle"
  /\ Goto(t, "ip_total",
          [NoLocals EXCEPT !.user = Some(u), !.req = Some(req),
                           !.total = Some(metrics.total_requests)])
  /\ resp' = [resp EXCEPT ![t] = None]
  /\ UNCHANGED <<payments, webhooks, audit_log, metrics, user_requests, clock,
                 deliveries, passed, sent>>

\* The write of line 194, and lines 198-203.
IP_StoreTotal(t) ==
  /\ pc[t] = "ip_total"
  /\ metrics' = [metrics EXCEPT !.total_requests = loc[t].total[1] + 1]
  /\ Goto(t, "ip_limit",
          [loc[t] EXCEPT !.now = Some(clock),
                         !.user_reqs = Some(Pruned(user_requests[loc[t].user[1]], clock))])
  /\ UNCHANGED <<payments, webhooks, audit_log, user_requests, clock, resp,
                 deliveries, passed, sent>>

\* Lines 204-209: reject, or append the timestamp and write the window back.
IP_RateLimit(t) ==
  /\ pc[t] = "ip_limit"
  /\ LET u == loc[t].user[1]
         user_reqs == loc[t].user_reqs[1]
         now == loc[t].now[1]
     IN  IF Len(user_reqs) >= RATE_LIMIT
         THEN /\ metrics' = [metrics EXCEPT !.rate_limit_hits = @ + 1]
              /\ audit_log' = log_action(audit_log, Some(u), "rate_limit_exceeded",
                                         [count |-> Len(user_reqs)])
              /\ Return(t, HTTPException(429, "Rate limit exceeded. Try again later."))
              /\ UNCHANGED <<user_requests, passed>>
         ELSE /\ user_requests' = [user_requests EXCEPT ![u] = Append(user_reqs, now)]
              /\ passed' = [passed EXCEPT ![u] = Append(@, now)]
              /\ pc' = [pc EXCEPT ![t] = "ip_fraud"]
              /\ UNCHANGED <<metrics, audit_log, loc, resp>>
  /\ UNCHANGED <<payments, webhooks, clock, deliveries, sent>>

\* Lines 211-222: the fraud screen.
IP_Fraud(t) ==
  /\ pc[t] = "ip_fraud"
  /\ LET u == loc[t].user[1]
         req == loc[t].req[1]
         fraud_flags == FraudFlags(req)
     IN  IF fraud_flags # <<>>
         THEN /\ metrics' = [metrics EXCEPT !.fraud_blocks = @ + 1]
              /\ audit_log' = log_action(audit_log, Some(u), "fraud_detected",
                                         [flags |-> fraud_flags, request |-> req])
              /\ Return(t, HTTPException(403, <<"Fraud detected", fraud_flags>>))
         ELSE /\ pc' = [pc EXCEPT ![t] = "ip_convert"]
              /\ UNCHANGED <<metrics, audit_log, loc, resp>>
  /\ UNCHANGED <<payments, webhooks, user_requests, clock, deliveries, passed, sent>>

\* Lines 224-247: the FX conversion, the ledger entry and the response.
IP_Convert(t) ==
  /\ pc[t] = "ip_convert"
  /\ LET u == loc[t].user[1]
         req == loc[t].req[1]
         fx_rate == FxRateOf(req)
         payment_id == Len(payments) + 1
     IN  IF NeedsConversion(req) /\ fx_rate = None
         THEN /\ audit_log' = log_action(audit_log, Some(u), "initiate_payment_failed",
                                         [reason |-> "FX rate not found", request |-> req])
              /\ Return(t, HTTPException(400,
                              "FX rate not available for requested currency pair"))
              /\ UNCHANGED <<payments, metrics>>
         ELSE /\ payments' = AdapterInitiate(payments, req)
              /\ metrics' = [metrics EXCEPT !.successful_payments = @ + 1]
              /\ audit_log' = log_action(audit_log, Some(u), "initiate_payment",
                                 [payment_id |-> payment_id, request |-> req,
                                  fx_rate |-> fx_rate,
                                  converted_amount |-> ConvertedAmount(req),
                                  target_currency |-> TargetCurrency(req)])
              /\ Return(t, PaymentStatus(payment_id, "pending", None, req, fx_rate,
                                         ConvertedAmount(req), TargetCurrency(req)))
  /\ UNCHANGED <<webhooks, user_requests, clock, deliveries, passed, sent>>

\* ------------------------------------------- POST /v1/webhooks/register
\* Lines 346-348.
register_webhook(t, u, pid, url) ==
  /\ pc[t] = "idle"
  /\ webhooks' = [webhooks EXCEPT ![pid] = Some(url)]
  /\ audit_log' = log_action(audit_log, Some(u), "register_webhook",
                             [payment_id |-> pid, url |-> url])
  /\ Return(t, [result |-> "webhook registered"])
  /\ UNCHANGED <<payments, metrics, user_requests, clock, deliveries, passed, sent>>

\* ------------------------------------- GET /v1/payments/{payment_id}/status
\* Lines 256-279.
check_status(t, u, pid) ==
  /\ pc[t] = "idle"
  /\ LET payment == get_status(pid)
     IN  IF payment = None
         THEN /\ audit_log' = log_action(audit_log, Some(u), "check_status_failed",
                                         [payment_id |-> pid])
              /\ Return(t, HTTPException(404, "Payment not found"))
         ELSE LET req == payment[1].request
              IN  /\ audit_log' = log_action(audit_log, Some(u), "check_status",
                                     [payment_id |-> pid, status |-> payment[1].status])
                  /\ Return(t, PaymentStatus(pid, payment[1].status,
                                             payment[1].settlement_time, req,
                                             FxRateOf(req), ConvertedAmount(req),
                                             TargetCurrency(req)))
  /\ UNCHANGED <<payments, webhooks, metrics, user_requests, clock, deliveries, passed, sent>>

\* ------------------------------------ POST /v1/payments/{payment_id}/settle
\* Lines 311-341: the handler.  The response is produced here; async_settle,
\* added as a background task, runs next on this thread.
instant_settle(t, u, pid) ==
  /\ pc[t] = "idle"
  /\ LET payment == get_status(pid)
     IN  IF payment = None
         THEN /\ audit_log' = log_action(audit_log, Some(u), "instant_settle_failed",
                                         [payment_id |-> pid])
              /\ Return(t, HTTPException(404, "Payment not found"))
         ELSE LET req == payment[1].request
              IN  /\ audit_log' = log_action(audit_log, Some(u), "instant_settle_requested",
                                             [payment_id |-> pid])
                  /\ resp' = [resp EXCEPT ![t] =
                                PaymentStatus(pid, "settling", None, req, FxRateOf(req),
                                              ConvertedAmount(req), TargetCurrency(req))]
                  /\ Goto(t, "settle_status",
                          [NoLocals EXCEPT !.user = Some(u), !.payment_id = Some(pid),
                                           !.req = Some(req)])
  /\ UNCHANGED <<payments, webhooks, metrics, user_requests, clock, deliveries, passed, sent>>

\* SetStatus without its assignment.
SetStatusNever(payment) == payment

\* settle_payment, line 55, for a stored record.
SetStatus(payment) == [payment EXCEPT !.status = "settled"]

\* settle_payment, line 56, for a stored record.
\* Stamp without its assignment.
StampNever(payment, now) == payment

Stamp(payment, now) == [payment EXCEPT !.settlement_time = Some(now)]

\* async_settle calling settle_payment, lines 52-55.
AS_Status(t) ==
  /\ pc[t] = "settle_status"
  /\ LET pid == loc[t].payment_id[1]
     IN  IF get_status(pid) = None
         THEN /\ pc' = [pc EXCEPT ![t] = "idle"]
              /\ loc' = [loc EXCEPT ![t] = NoLocals]
              /\ UNCHANGED payments
         ELSE /\ payments' = [payments EXCEPT ![pid] = SetStatus(@)]
              /\ pc' = [pc EXCEPT ![t] = "settle_time"]
              /\ UNCHANGED loc
  /\ UNCHANGED <<webhooks, audit_log, metrics, user_requests, clock, resp,
                 deliveries, passed, sent>>

\* settle_payment, lines 56-57.
AS_Time(t) ==
  /\ pc[t] = "settle_time"
  /\ LET pid == loc[t].payment_id[1]
     IN  payments' = [payments EXCEPT ![pid] = Stamp(@, clock)]
  /\ pc' = [pc EXCEPT ![t] = "settle_log"]
  /\ UNCHANGED <<webhooks, audit_log, metrics, user_requests, clock, loc, resp,
                 deliveries, passed, sent>>

\* async_settle, line 328.  settled is the stored record itself, so its
\* fields are read from the ledger when the line runs.
AS_Log(t) ==
  /\ pc[t] = "settle_log"
  /\ LET pid == loc[t].payment_id[1]
         req == loc[t].req[1]
         settled == payments[pid]
     IN  audit_log' = log_action(audit_log, loc[t].user, "instant_settle",
                         [payment_id |-> pid, status |-> settled.status,
                          settlement_time |-> settled.settlement_time,
                          fx_rate |-> FxRateOf(req),
                          converted_amount |-> ConvertedAmount(req),
                          target_currency |-> TargetCurrency(req)])
  /\ pc' = [pc EXCEPT ![t] = "send_webhook"]
  /\ UNCHANGED <<payments, webhooks, metrics, user_requests, clock, loc, resp,
                 deliveries, passed, sent>>

\* ------------------------------------------------------------ send_webhook
\* Line 329 and lines 284-286: the call with the record's fields as they are
\* now, and the lookup of the url.  Without a url the call returns False.
SW_Begin(t) ==
  /\ pc[t] = "send_webhook"
  /\ LET pid == loc[t].payment_id[1]
         url == IF pid \in DOMAIN webhooks THEN webhooks[pid] ELSE None
     IN  IF Truthy(url)
         THEN /\ Goto(t, "post",
                      [loc[t] EXCEPT !.status = Some(payments[pid].status),
                                     !.settlement_time = payments[pid].settlement_time,
                                     !.url = url, !.attempt = Some(0), !.delay = Some(1)])
              /\ UNCHANGED sent
         ELSE /\ pc' = [pc EXCEPT ![t] = "idle"]
              /\ loc' = [loc EXCEPT ![t] = NoLocals]
              /\ sent' = [sent EXCEPT ![t] = Some(FALSE)]
  /\ UNCHANGED <<payments, webhooks, audit_log, metrics, user_requests, clock, resp,
                 deliveries, passed>>

\* Whether one attempt's outcome ends the loop with return True: the code
\* returns True unless requests.post raised.
Delivered(outcome) == outcome # "raise"

RetriesLeft(attempt) == attempt + 1 < max_retries

\* Lines 287-305: one pass of the loop.  The POST is made and answered; on
\* success the call returns True; on an exception the task sleeps, doubles
\* the delay and tries again, and after the last attempt appends the
\* webhook_failed entry and returns False.  The sleep changes no state of
\* the program; how far the clock moves meanwhile is left to Tick.
SW_Attempt(t, outcome) ==
  /\ pc[t] = "post"
  /\ LET pid == loc[t].payment_id[1]
         attempt == loc[t].attempt[1]
     IN  /\ deliveries' = Append(deliveries,
                                 [payment_id |-> pid, status |-> loc[t].status[1],
                                  settlement_time |-> loc[t].settlement_time,
                                  url |-> loc[t].url[1], by |-> t, outcome |-> outcome])
         /\ IF Delivered(outcome)
            THEN /\ pc' = [pc EXCEPT ![t] = "idle"]
                 /\ loc' = [loc EXCEPT ![t] = NoLocals]
                 /\ sent' = [sent EXCEPT ![t] = Some(TRUE)]
                 /\ UNCHANGED audit_log
            ELSE IF RetriesLeft(attempt)
            THEN /\ loc' = [loc EXCEPT ![t] = [@ EXCEPT !.attempt = Some(attempt + 1),
                                                        !.delay = Some(2 * @[1])]]
                 /\ UNCHANGED <<pc, audit_log, sent>>
            ELSE /\ audit_log' = Append(audit_log,
                                   [timestamp |-> clock, user |-> None,
                                    action |-> "webhook_failed",
                                    details |-> [payment_id |-> pid, url |-> loc[t].url[1],
                                                 status |-> loc[t].status[1]]])
                 /\ pc' = [pc EXCEPT ![t] = "idle"]
                 /\ loc' = [loc EXCEPT ![t] = NoLocals]
                 /\ sent' = [sent EXCEPT ![t] = Some(FALSE)]
  /\ UNCHANGED <<payments, webhooks, metrics, user_requests, clock, resp, passed>>

\* ------------------------------------------------ POST /v1/payments/batch
\* Lines 151-153.
BP_Begin(t, u, batch) ==
  /\ pc[t] = "idle"
  /\ Goto(t, "batch_item",
          [NoLocals EXCEPT !.user = Some(u), !.batch = Some(batch),
                           !.results = Some(<<>>), !.success = Some(0),
                           !.failed = Some(0)])
  /\ resp' = [resp EXCEPT ![t] = None]
  /\ UNCHANGED <<payments, webhooks, audit_log, metrics, user_requests, clock,
                 deliveries, passed, sent>>

\* Lines 154-173: one pass of the loop, for the next request of the batch.
\* The only exception the body raises is the one for a missing FX rate.
BP_Item(t) ==
  /\ pc[t] = "batch_item"
  /\ Len(loc[t].results[1]) < Len(loc[t].batch[1])
  /\ LET u == loc[t].user[1]
         req == loc[t].batch[1][Len(loc[t].results[1]) + 1]
         fx_rate == FxRateOf(req)
         payment_id == Len(payments) + 1
     IN  IF NeedsConversion(req) /\ fx_rate = None
         THEN /\ loc' = [loc EXCEPT ![t] =
                           [@ EXCEPT !.results = Some(Append(@[1],
                                        [error |-> "FX rate not available",
                                         payment |-> req])),
                                     !.failed = Some(@[1] + 1)]]
              /\ UNCHANGED <<payments, audit_log>>
         ELSE /\ payments' = AdapterInitiate(payments, req)
              /\ audit_log' = log_action(audit_log, Some(u), "batch_initiate_payment",
                                 [payment_id |-> payment_id, request |-> req,
                                  fx_rate |-> fx_rate,
                                  converted_amount |-> ConvertedAmount(req),
                                  target_currency |-> TargetCurrency(req)])
              /\ loc' = [loc EXCEPT ![t] =
                           [@ EXCEPT !.results = Some(Append(@[1],
                                        [payment_id |-> payment_id, status |-> "pending",
                                         amount |-> req.amount, currency |-> req.currency,
                                         converted_amount |-> ConvertedAmount(req),
                                         target_currency |-> TargetCurrency(req)])),
                                     !.success = Some(@[1] + 1)]]
  /\ UNCHANGED <<webhooks, metrics, user_requests, clock, pc, resp, deliveries, passed, sent>>

\* Line 174.
BP_Return(t) ==
  /\ pc[t] = "batch_item"
  /\ Len(loc[t].results[1]) = Len(loc[t].batch[1])
  /\ Return(t, [kind |-> "BatchPaymentResult", results |-> loc[t].results[1],
                summary |-> [success |-> loc[t].success[1], failed |-> loc[t].failed[1],
                             total |-> Len(loc[t].batch[1])]])
  /\ UNCHANGED <<payments, webhooks, audit_log, metrics, user_requests, clock,
                 deliveries, passed, sent>>

\* --------------------------------------------------------------- the clock
Tick(d, last) ==
  /\ clock + d <= last
  /\ clock' = clock + d
  /\ UNCHANGED <<payments, webhooks, audit_log, metrics, user_requests,
                 pc, loc, resp, deliveries, passed, sent>>

\* ------------------------------------------------------------ specifications
\* The payment ids that requests name; a payment is submitted while the
\* ledger holds fewer.
PaymentIds == {1}

Init ==
  /\ payments = <<>>
  /\ webhooks = [p \in PaymentIds |-> None]
  /\ audit_log = <<>>
  /\ metrics = [total_requests |-> 0, successful_payments |-> 0,
                rate_limit_hits |-> 0, fraud_blocks |-> 0]
  /\ user_requests = [u \in Users |-> <<>>]
  /\ clock = 0
  /\ pc = [t \in Threads |-> "idle"]
  /\ loc = [t \in Threads |-> NoLocals]
  /\ resp = [t \in Threads |-> None]
  /\ deliveries = <<>>
  /\ passed = [u \in Users |-> <<>>]
  /\ sent = [t \in Threads |-> None]

\* Spec: the life of a payment.  Two threads serve payment submissions,
\* webhook registrations, status reads and settlements, with their
\* background tasks, while the clock advances.
LifeRequests == { PaymentRequest("ACC1", "ACC2", 10000, "USD", Some("EUR")) }

CanStart == Len(audit_log) < MaxAudit

Next ==
  \/ Tick(1, MaxClock)
  \/ \E t \in Threads, u \in Users, req \in LifeRequests :
       CanStart /\ Len(payments) < Cardinality(PaymentIds) /\ IP_Begin(t, u, req)
  \/ \E t \in Threads, u \in Users, pid \in PaymentIds, url \in Urls :
       CanStart /\ register_webhook(t, u, pid, url)
  \/ \E t \in Threads, u \in Users, pid \in PaymentIds :
       CanStart /\ check_status(t, u, pid)
  \/ \E t \in Threads, u \in Users, pid \in PaymentIds :
       CanStart /\ instant_settle(t, u, pid)
  \/ \E t \in Threads : IP_RateLimit(t)
  \/ \E t \in Threads : IP_Fraud(t)
  \/ \E t \in Threads : IP_Convert(t)
  \/ \E t \in Threads : AS_Status(t)
  \/ \E t \in Threads : AS_Time(t)
  \/ \E t \in Threads : AS_Log(t)
  \/ \E t \in Threads : SW_Begin(t)
  \/ \E t \in Threads, outcome \in Outcomes :
       Len(deliveries) < MaxDeliveries /\ SW_Attempt(t, outcome)

Spec == Init /\ [][Next]_vars

\* SpecLive: settlement with background tasks that are scheduled fairly.
\* Two threads serve submissions, webhook registrations and settlements; a
\* task that can run a line of settle_payment does run it.  Nothing makes a
\* webhook endpoint answer, and nothing makes a request arrive.
CanStartLive == Len(audit_log) < MaxLiveAudit

NextLive ==
  \/ \E t \in Threads, u \in Users, req \in LifeRequests :
       CanStartLive /\ Len(payments) < Cardinality(PaymentIds) /\ IP_Begin(t, u, req)
  \/ \E t \in Threads, u \in Users, pid \in PaymentIds, url \in Urls :
       CanStartLive /\ register_webhook(t, u, pid, url)
  \/ \E t \in Threads, u \in Users, pid \in PaymentIds :
       CanStartLive /\ instant_settle(t, u, pid)
  \/ \E t \in Threads : IP_RateLimit(t)
  \/ \E t \in Threads : IP_Fraud(t)
  \/ \E t \in Threads : IP_Convert(t)
  \/ \E t \in Threads : AS_Status(t)
  \/ \E t \in Threads : AS_Time(t)
  \/ \E t \in Threads : AS_Log(t)
  \/ \E t \in Threads : SW_Begin(t)
  \/ \E t \in Threads, outcome \in Outcomes :
       Len(deliveries) < MaxDeliveries /\ SW_Attempt(t, outcome)

SpecLive ==
  /\ Init
  /\ [][NextLive]_vars
  /\ \A t \in Threads : WF_vars(AS_Status(t)) /\ WF_vars(AS_Time(t))

\* SpecSeq: the same operations served by one thread, so that a request and
\* its background task end before the next request starts.
CanStartSeq == Len(audit_log) < MaxSeqAudit

NextSeq ==
  \/ Tick(1, MaxClock)
  \/ \E u \in Users, req \in LifeRequests :
       CanStartSeq /\ Len(payments) < Cardinality(PaymentIds) /\ IP_Begin(1, u, req)
  \/ \E u \in Users, pid \in PaymentIds, url \in Urls :
       CanStartSeq /\ register_webhook(1, u, pid, url)
  \/ \E u \in Users, pid \in PaymentIds : CanStartSeq /\ check_status(1, u, pid)
  \/ \E u \in Users, pid \in PaymentIds : CanStartSeq /\ instant_settle(1, u, pid)
  \/ IP_RateLimit(1)
  \/ IP_Fraud(1)
  \/ IP_Convert(1)
  \/ AS_Status(1)
  \/ AS_Time(1)
  \/ AS_Log(1)
  \/ SW_Begin(1)
  \/ \E outcome \in Outcomes : Len(deliveries) < MaxDeliveries /\ SW_Attempt(1, outcome)

SpecSeq == Init /\ [][NextSeq]_vars

\* SpecAdmit: admission.  One thread serves single submissions and batches
\* drawn from requests on both sides of every guardrail.
AdmitRequests ==
  { PaymentRequest("ACC1", "ACC2", 10000, "USD", None),
    PaymentRequest("ACC1", "ACC2", 10000, "USD", Some("USD")),
    PaymentRequest("ACC1", "ACC2", 10000, "USD", Some("EUR")),
    PaymentRequest("ACC1", "ACC2", 10000, "USD", Some("JPY")),
    PaymentRequest("ACC1", "ACC2", 50, "GBP", Some("USD")),
    PaymentRequest("ACC1", "ACC2", 1000000, "USD", None),
    PaymentRequest("ACC1", "ACC2", 1000001, "USD", None),
    PaymentRequest("ACC1", "FAKE123", 10000, "USD", None),
    PaymentRequest("ACC1", "TEST999", 1000001, "USD", Some("EUR")) }

BatchRequests ==
  { PaymentRequest("ACC1", "ACC2", 10000, "USD", Some("EUR")),
    PaymentRequest("ACC1", "ACC2", 10000, "USD", Some("JPY")),
    PaymentRequest("ACC1", "FAKE123", 1000001, "USD", None) }

Batches == UNION { [1..n -> BatchRequests] : n \in 0..MaxBatch }

CanStartAdmit == Len(audit_log) < MaxAdmitAudit

NextAdmit ==
  \/ \E u \in Users, req \in AdmitRequests : CanStartAdmit /\ IP_Begin(1, u, req)
  \/ IP_RateLimit(1)
  \/ IP_Fraud(1)
  \/ IP_Convert(1)
  \/ \E u \in Users, batch \in Batches : CanStartAdmit /\ BP_Begin(1, u, batch)
  \/ BP_Item(1)
  \/ BP_Return(1)

SpecAdmit == Init /\ [][NextAdmit]_vars

\* SpecRate: the rate limiter, one request at a time.  One thread serves
\* submissions of one request that passes the later guardrails, while the
\* clock advances in steps of half a window.
RateRequests == { PaymentRequest("ACC1", "ACC2", 10000, "USD", None) }
RateTicks == {30}

NextRate ==
  \/ \E d \in RateTicks : Tick(d, MaxRateClock)
  \/ \E u \in Users, req \in RateRequests :
       metrics.total_requests < MaxSubmits /\ IP_Begin(1, u, req)
  \/ IP_RateLimit(1)
  \/ IP_Fraud(1)
  \/ IP_Convert(1)

SpecRate == Init /\ [][NextRate]_vars

\* SpecRace: the rate limiter under concurrent submissions of two threads.
NextRace ==
  \/ \E d \in RateTicks : Tick(d, MaxRaceClock)
  \/ \E t \in Threads, u \in Users, req \in RateRequests :
       metrics.total_requests < MaxRaceSubmits /\ IP_Begin(t, u, req)
  \/ \E t \in Threads : IP_RateLimit(t)
  \/ \E t \in Threads : IP_Fraud(t)
  \/ \E t \in Threads : IP_Convert(t)

SpecRace == Init /\ [][NextRace]_vars

\* SpecMetrics: the counters under concurrent submissions.  Two threads
\* serve submissions, one accepted and one blocked by the fraud screen, with
\* the increment of total_requests in its two halves.  The increments of
\* the other counters (lines 205, 220, 237) have the same form; they are
\* taken in one step here, which leaves out behaviours and adds none.
MetricsRequests ==
  { PaymentRequest("ACC1", "ACC2", 10000, "USD", None),
    PaymentRequest("ACC1", "FAKE123", 10000, "USD", None) }

CanStartMetrics == Len(audit_log) < MaxMetricsAudit

NextMetrics ==
  \/ \E t \in Threads, u \in Users, req \in MetricsRequests :
       CanStartMetrics /\ IP_LoadTotal(t, u, req)
  \/ \E t \in Threads : IP_StoreTotal(t)
  \/ \E t \in Threads : IP_RateLimit(t)
  \/ \E t \in Threads : IP_Fraud(t)
  \/ \E t \in Threads : IP_Convert(t)

SpecMetrics == Init /\ [][NextMetrics]_vars

\* SpecLedger: the ledger with more than one payment.  Two threads serve
\* submissions of two different requests, status reads and settlements of
\* two payment ids; no url is registered, so a dispatch ends at its lookup.
LedgerIds == {1, 2}

LedgerRequests ==
  { PaymentRequest("ACC1", "ACC2", 10000, "USD", Some("EUR")),
    PaymentRequest("ACC3", "ACC4", 50, "GBP", None) }

CanStartLedger == Len(audit_log) < MaxLedgerAudit

NextLedger ==
  \/ \E t \in Threads, u \in Users, req \in LedgerRequests :
       CanStartLedger /\ Len(payments) < Cardinality(LedgerIds) /\ IP_Begin(t, u, req)
  \/ \E t \in Threads, u \in Users, pid \in LedgerIds :
       CanStartLedger /\ check_status(t, u, pid)
  \/ \E t \in Threads, u \in Users, pid \in LedgerIds :
       CanStartLedger /\ instant_settle(t, u, pid)
  \/ \E t \in Threads : IP_RateLimit(t)
  \/ \E t \in Threads : IP_Fraud(t)
  \/ \E t \in Threads : IP_Convert(t)
  \/ \E t \in Threads : AS_Status(t)
  \/ \E t \in Threads : AS_Time(t)
  \/ \E t \in Threads : AS_Log(t)
  \/ \E t \in Threads : SW_Begin(t)

SpecLedger == Init /\ [][NextLedger]_vars

\* ================================================================== claims
\* The threads that are inside settle_payment for pid, between its line 55
\* and its line 56.
MidSettle(pid) ==
  { t \in Threads : pc[t] = "settle_time" /\ loc[t].payment_id = Some(pid) }

Complete(payment) == payment.status = "settled" /\ payment.settlement_time # None

SettleEntries(pid) ==
  { i \in DOMAIN audit_log : /\ audit_log[i].action = "instant_settle"
                             /\ audit_log[i].details.payment_id = pid }

\* C1: whenever no settle_payment call is under way for a payment, its
\* record has a settlement_time if and only if its status is settled.
C1_SettlementTimeIffSettled ==
  \A pid \in DOMAIN payments :
    MidSettle(pid) = {} =>
      (payments[pid].settlement_time # None <=> payments[pid].status = "settled")

\* C1 witness: with every thread idle, the ledger holds a settled payment
\* with its settlement time, and a status read has returned that record.
C1_Witness ==
  /\ \A t \in Threads : pc[t] = "idle"
  /\ \E pid \in DOMAIN payments : Complete(payments[pid])
  /\ \E t \in Threads : /\ resp[t] # None
                        /\ "status" \in DOMAIN resp[t]
                        /\ resp[t].status = "settled"
                        /\ resp[t].settlement_time # None

\* C2: a settlement run on a payment that an earlier, finished run settled
\* leaves the record as it is, settlement time included (one request at a
\* time: SpecSeq).
C2_SecondSettleChangesNothing ==
  [][\A pid \in DOMAIN payments :
       Complete(payments[pid]) => payments'[pid] = payments[pid]]_vars

\* C3: however the settlement requests for one payment interleave, at most
\* one settlement has stamped the record and is still at work, at most one
\* instant_settle audit entry is written for it, and at most one call of
\* send_webhook is made for it.
C3_SingleEffectiveSettlement ==
  \A pid \in DOMAIN payments :
    /\ Cardinality(SettleEntries(pid)) <= 1
    /\ Cardinality({ t \in Threads : /\ pc[t] \in {"settle_log", "send_webhook", "post"}
                                     /\ loc[t].payment_id = Some(pid) }) <= 1

\* The POSTs thread t has made, oldest first.
DeliveriesBy(t) == SelectSeq(deliveries, LAMBDA d : d.by = t)

\* This step is thread t making one delivery attempt.
AttemptBy(t) ==
  /\ pc[t] = "post"
  /\ Len(deliveries') = Len(deliveries) + 1
  /\ deliveries'[Len(deliveries')].by = t

\* This step appends one webhook_failed entry, with no principal, for the
\* payment, url and status of thread t's call, and nothing else.
AppendsWebhookFailed(t) ==
  /\ Len(audit_log') = Len(audit_log) + 1
  /\ SubSeq(audit_log', 1, Len(audit_log)) = audit_log
  /\ LET e == audit_log'[Len(audit_log')]
     IN  /\ e.user = None
         /\ e.action = "webhook_failed"
         /\ e.details = [payment_id |-> loc[t].payment_id[1], url |-> loc[t].url[1],
                         status |-> loc[t].status[1]]

\* C7: a send_webhook call makes at most 3 attempts, each after the first
\* following a failed one, where an attempt fails unless it is answered 2xx;
\* an attempt answered 2xx ends the call with True and no audit entry; a
\* first or second attempt that fails is followed by another attempt and
\* writes no audit entry; a third attempt that fails ends the call with
\* False and exactly one webhook_failed entry with no principal, carrying
\* the payment id, the url and the status.
C7_BoundedRetry ==
  [][\A t \in Threads :
       AttemptBy(t) =>
         LET k == loc[t].attempt[1]
             mine == DeliveriesBy(t)
             o == deliveries'[Len(deliveries')].outcome
         IN  /\ k + 1 <= 3
             /\ Len(mine) >= k
             /\ \A i \in (Len(mine) - k + 1)..Len(mine) : mine[i].outcome # "2xx"
             /\ o = "2xx" =>
                  /\ pc'[t] = "idle"
                  /\ sent'[t] = Some(TRUE)
                  /\ audit_log' = audit_log
             /\ (o # "2xx" /\ k < 2) =>
                  /\ pc'[t] = "post"
                  /\ loc'[t].attempt = Some(k + 1)
                  /\ sent' = sent
                  /\ audit_log' = audit_log
             /\ (o # "2xx" /\ k = 2) =>
                  /\ pc'[t] = "idle"
                  /\ sent'[t] = Some(FALSE)
                  /\ AppendsWebhookFailed(t)]_vars

\* What the retry loop does when failure is taken to be an attempt that
\* raises: the statement of C7 with "raise" in the place of "not 2xx".
RaisedAttemptsAreRetried ==
  [][\A t \in Threads :
       AttemptBy(t) =>
         LET k == loc[t].attempt[1]
             mine == DeliveriesBy(t)
             o == deliveries'[Len(deliveries')].outcome
         IN  /\ k + 1 <= 3
             /\ Len(mine) >= k
             /\ \A i \in (Len(mine) - k + 1)..Len(mine) : mine[i].outcome = "raise"
             /\ o = "2xx" =>
                  /\ pc'[t] = "idle"
                  /\ sent'[t] = Some(TRUE)
                  /\ audit_log' = audit_log
             /\ (o = "raise" /\ k < 2) =>
                  /\ pc'[t] = "post"
                  /\ loc'[t].attempt = Some(k + 1)
                  /\ sent' = sent
                  /\ audit_log' = audit_log
             /\ (o = "raise" /\ k = 2) =>
                  /\ pc'[t] = "idle"
                  /\ sent'[t] = Some(FALSE)
                  /\ AppendsWebhookFailed(t)]_vars

\* C8: an attempt answered with a status other than 2xx is a failure: the
\* call does not return True on it, a first or second such attempt is
\* followed by another attempt, and a third one by the webhook_failed entry.
C8_Non2xxIsFailure ==
  [][\A t \in Threads :
       (AttemptBy(t) /\ deliveries'[Len(deliveries')].outcome # "2xx") =>
         /\ sent'[t] # Some(TRUE)
         /\ loc[t].attempt[1] < 2 => pc'[t] = "post"
         /\ loc[t].attempt[1] = 2 => AppendsWebhookFailed(t)]_vars

\* ---------------------------------------------------------------- admission
\* The passes of the rate-limit step by user u that are younger than the
\* window at time at.
RecentPasses(u, at) ==
  Cardinality({ i \in DOMAIN passed[u] :
                  passed[u][i] <= at /\ at - passed[u][i] < 60 })

\* C4: no stored payment has an amount above 10000 or a denylisted
\* destination, and none was created while its principal was over the rate
\* limit: when a submission created it, the principal had at most 10 passes
\* inside the window, its own included, and when a batch created it, fewer
\* than 10.
C4_LedgerHoldsOnlyAdmitted ==
  /\ \A pid \in DOMAIN payments :
       /\ payments[pid].request.amount <= 1000000
       /\ payments[pid].request.to_account \notin {"FAKE123", "TEST999"}
  /\ \A i \in DOMAIN audit_log :
       LET e == audit_log[i]
       IN  /\ e.action = "initiate_payment" =>
                RecentPasses(e.user[1], e.timestamp) <= 10
           /\ e.action = "batch_initiate_payment" =>
                RecentPasses(e.user[1], e.timestamp) < 10

\* This step is thread t leaving the place named label.
Leaves(t, label) == pc[t] = label /\ pc'[t] # label

Rejected(response, code) ==
  /\ response # None
  /\ "status_code" \in DOMAIN response
  /\ response.status_code = code

Accepted(response) ==
  /\ response # None
  /\ "payment_id" \in DOMAIN response

Flags(seq) == { seq[i] : i \in DOMAIN seq }

\* C9: the fraud step rejects a request with 403 exactly when its amount is
\* above 10000 or its destination is denylisted; the rejection's detail and
\* its audit entry name exactly the rules that hold, no payment is created,
\* fraud_blocks grows by one and the other counters stay; a request that is
\* not rejected goes on to the conversion step with nothing changed.
C9_FraudScreen ==
  [][\A t \in Threads :
       Leaves(t, "ip_fraud") =>
         LET req == loc[t].req[1]
             high == req.amount > 1000000
             susp == req.to_account \in {"FAKE123", "TEST999"}
         IN  /\ Rejected(resp'[t], 403) <=> (high \/ susp)
             /\ (high \/ susp) =>
                  /\ pc'[t] = "idle"
                  /\ "high_amount" \in Flags(resp'[t].detail[2]) <=> high
                  /\ "suspicious_account" \in Flags(resp'[t].detail[2]) <=> susp
                  /\ Len(resp'[t].detail[2]) = Cardinality(Flags(resp'[t].detail[2]))
                  /\ Len(audit_log') = Len(audit_log) + 1
                  /\ audit_log'[Len(audit_log')].action = "fraud_detected"
                  /\ audit_log'[Len(audit_log')].details.flags = resp'[t].detail[2]
                  /\ payments' = payments
                  /\ metrics' = [metrics EXCEPT !.fraud_blocks = @ + 1]
             /\ ~(high \/ susp) =>
                  /\ pc'[t] = "ip_convert"
                  /\ payments' = payments
                  /\ metrics' = metrics
                  /\ audit_log' = audit_log]_vars

\* C9 witness: a request with amount 10000.01 to a denylisted account was
\* rejected with both flags, after a request of amount 10000.00 was accepted.
C9_Witness ==
  /\ Rejected(resp[1], 403)
  /\ resp[1].detail[2] = <<"high_amount", "suspicious_account">>
  /\ metrics.fraud_blocks = 1
  /\ \E pid \in DOMAIN payments : payments[pid].request.amount = 1000000

\* C10: the conversion step, for a request whose target currency differs
\* from its source currency, accepts it when the pair is in the rate table,
\* with the table's rate and a converted amount within half a cent of
\* amount x rate, and rejects it with 400, creating no payment and leaving
\* the counters, when the pair is absent; with no target currency it accepts
\* with the amount as converted amount and the source currency as target.
C10_Conversion ==
  [][\A t \in Threads :
       Leaves(t, "ip_convert") =>
         LET req == loc[t].req[1]
             tgt == req.target_currency
             differs == tgt # None /\ tgt[1] # req.currency
             pair == <<req.currency, IF tgt # None THEN tgt[1] ELSE req.currency>>
             r == resp'[t]
         IN  /\ (differs /\ pair \in DOMAIN FX_RATES) =>
                  /\ Accepted(r)
                  /\ r.fx_rate = Some(FX_RATES[pair])
                  /\ r.converted_amount # None
                  /\ LET d == 100 * r.converted_amount[1] - req.amount * FX_RATES[pair]
                     IN  -50 <= d /\ d <= 50
                  /\ r.target_currency = tgt[1]
                  /\ (req.amount = 10000 /\ pair = <<"USD", "EUR">>) =>
                       r.converted_amount = Some(9200)
             /\ (differs /\ pair \notin DOMAIN FX_RATES) =>
                  /\ Rejected(r, 400)
                  /\ payments' = payments
                  /\ metrics' = metrics
             /\ tgt = None =>
                  /\ Accepted(r)
                  /\ r.converted_amount = Some(req.amount)
                  /\ r.target_currency = req.currency
             /\ Accepted(r) =>
                  /\ payments' = Append(payments, [request |-> req, status |-> "pending",
                                                   settlement_time |-> None])
                  /\ r.payment_id = Len(payments')
                  /\ metrics' = [metrics EXCEPT !.successful_payments = @ + 1]]_vars

\* C10 witness: 100.00 USD to EUR was accepted as 92.00 at rate 0.92, and
\* then USD to JPY was rejected with 400.
C10_Witness ==
  /\ Rejected(resp[1], 400)
  /\ Len(payments) = 1
  /\ payments[1].request.target_currency = Some("EUR")
  /\ \E i \in DOMAIN audit_log :
       /\ audit_log[i].action = "initiate_payment"
       /\ audit_log[i].details.converted_amount = Some(9200)
       /\ audit_log[i].details.fx_rate = Some(92)
  /\ metrics.successful_payments = 1

\* ------------------------------------------------------------- rate limiter
\* C5: one request at a time, the rate-limit step rejects a request with 429
\* exactly when 10 earlier passes of its principal are less than 60 old at
\* the request's time (never more than 10 are); a rejection counts one
\* rate-limit hit and adds no timestamp; a pass records the request's time
\* in the window and goes on to the fraud step.
C5_RateLimiter ==
  [][\A t \in Threads :
       Leaves(t, "ip_limit") =>
         LET u == loc[t].user[1]
             now == loc[t].now[1]
             recent == Cardinality({ i \in DOMAIN passed[u] : now - passed[u][i] < 60 })
         IN  /\ recent <= 10
             /\ Rejected(resp'[t], 429) <=> recent = 10
             /\ recent = 10 =>
                  /\ pc'[t] = "idle"
                  /\ passed' = passed
                  /\ user_requests' = user_requests
                  /\ metrics' = [metrics EXCEPT !.rate_limit_hits = @ + 1]
             /\ recent < 10 =>
                  /\ pc'[t] = "ip_fraud"
                  /\ passed'[u] = Append(passed[u], now)
                  /\ Len(user_requests'[u]) = recent + 1
                  /\ user_requests'[u][recent + 1] = now
                  /\ metrics' = metrics]_vars

\* C5 witness: the 11th of 11 requests inside one window was rejected, and
\* later, the window having passed, a 12th request was let through.
C5_Witness ==
  /\ metrics.rate_limit_hits = 1
  /\ Len(passed["demo"]) = 11
  /\ \A i \in 1..10 : passed["demo"][11] - passed["demo"][i] >= 60
  /\ \A i \in 1..10 : passed["demo"][10] - passed["demo"][i] < 60
  /\ Len(payments) = 11

Count(seq, x) == Cardinality({ i \in DOMAIN seq : seq[i] = x })

\* C6: for any interleaving of one principal's submissions, at most 10
\* passes of the rate-limit step have timestamps inside any window of 60,
\* and every pass that is still younger than the window is in the stored
\* window, as often as it was appended.
C6_AtomicWindow ==
  \A u \in Users :
    /\ \A i \in DOMAIN passed[u] :
         Cardinality({ j \in DOMAIN passed[u] :
                         /\ passed[u][j] >= passed[u][i]
                         /\ passed[u][j] - passed[u][i] < 60 }) <= 10
    /\ \A i \in DOMAIN passed[u] :
         clock - passed[u][i] < 60 =>
           Count(passed[u], passed[u][i]) <= Count(user_requests[u], passed[u][i])

\* -------------------------------------------------------------------- batch
\* The request names a target currency other than its source currency, and
\* the rate table lacks the pair.
UnsupportedPair(req) ==
  /\ req.target_currency # None
  /\ req.target_currency[1] # req.currency
  /\ <<req.currency, req.target_currency[1]>> \notin DOMAIN FX_RATES

ItemOk(r) == "payment_id" \in DOMAIN r
ItemFailed(r) == "error" \in DOMAIN r

\* The result entry r answers the request req.
Answers(r, req) ==
  \/ ItemFailed(r) /\ ~ItemOk(r) /\ r.payment = req /\ UnsupportedPair(req)
  \/ ItemOk(r) /\ ~ItemFailed(r) /\ r.amount = req.amount /\ r.currency = req.currency
       /\ ~UnsupportedPair(req)

OkItems(results) == { i \in DOMAIN results : ItemOk(results[i]) }
FailedItems(results) == { i \in DOMAIN results : ItemFailed(results[i]) }

\* C11: a batch call handles its requests one by one, in order: each pass of
\* the loop adds one entry to the result list; an item with an unsupported
\* pair adds an error entry, creates no payment and is followed by the next
\* item; any other item creates exactly one payment.  The call ends with a
\* BatchPaymentResult, never an error: n entries for n requests, the i-th
\* for the i-th request, success + failed = total = n, success being the
\* number of payments the batch created (every success entry names a
\* payment of its own, stored with the request of that item); 3 requests of
\* which one has an unsupported pair give success 2, failed 1, total 3.
C11_BatchPartialSuccess ==
  [][\A t \in Threads :
       /\ (pc[t] = "batch_item" /\ pc'[t] = "batch_item" /\ loc'[t] # loc[t]) =>
            LET batch == loc[t].batch[1]
                results == loc[t].results[1]
                i == Len(results) + 1
                after == loc'[t].results[1]
            IN  /\ i <= Len(batch)
                /\ loc'[t].batch = loc[t].batch
                /\ Len(after) = i
                /\ SubSeq(after, 1, i - 1) = results
                /\ Answers(after[i], batch[i])
                /\ UnsupportedPair(batch[i]) =>
                     /\ payments' = payments
                     /\ loc'[t].failed = Some(loc[t].failed[1] + 1)
                     /\ loc'[t].success = loc[t].success
                /\ ~UnsupportedPair(batch[i]) =>
                     /\ payments' = Append(payments, [request |-> batch[i],
                                                      status |-> "pending",
                                                      settlement_time |-> None])
                     /\ after[i].payment_id = Len(payments')
                     /\ loc'[t].success = Some(loc[t].success[1] + 1)
                     /\ loc'[t].failed = loc[t].failed
       /\ Leaves(t, "batch_item") =>
            LET batch == loc[t].batch[1]
                r == resp'[t]
            IN  /\ r # None
                /\ "kind" \in DOMAIN r
                /\ r.kind = "BatchPaymentResult"
                /\ Len(r.results) = Len(batch)
                /\ \A i \in DOMAIN batch : Answers(r.results[i], batch[i])
                /\ r.summary.total = Len(batch)
                /\ r.summary.success + r.summary.failed = r.summary.total
                /\ r.summary.success = Cardinality(OkItems(r.results))
                /\ r.summary.failed = Cardinality(FailedItems(r.results))
                /\ r.summary.success =
                     Cardinality({ r.results[i].payment_id : i \in OkItems(r.results) })
                /\ \A i \in OkItems(r.results) :
                     /\ r.results[i].payment_id \in DOMAIN payments
                     /\ payments[r.results[i].payment_id].request = batch[i]
                /\ payments' = payments
                /\ (Len(batch) = 3
                      /\ Cardinality({ i \in DOMAIN batch : UnsupportedPair(batch[i]) }) = 1) =>
                     r.summary = [success |-> 2, failed |-> 1, total |-> 3]]_vars

\* C11 witness: a batch of 3 requests whose second has an unsupported pair
\* returned 3 entries, the second an error, with summary 2, 1, 3, and the
\* two payments it created are in the ledger.
C11_Witness ==
  /\ resp[1] # None
  /\ "summary" \in DOMAIN resp[1]
  /\ resp[1].summary = [success |-> 2, failed |-> 1, total |-> 3]
  /\ ItemOk(resp[1].results[1])
  /\ ItemFailed(resp[1].results[2])
  /\ ItemOk(resp[1].results[3])
  /\ Len(payments) = 2

\* -------------------------------------------------------------------- audit
InSubmit(t) == pc[t] \in {"ip_limit", "ip_fraud", "ip_convert"}

\* C12: a submitPayment call appends exactly one audit entry, with its last
\* step, whatever the outcome: the steps before the last append nothing,
\* and the step that ends the call appends one entry whose principal is the
\* caller and whose details hold the request as it was submitted (one
\* request at a time).
C12_OneAuditEntryPerSubmission ==
  [][\A t \in Threads :
       /\ (InSubmit(t) \/ InSubmit(t)') /\ pc'[t] # "idle" => audit_log' = audit_log
       /\ (InSubmit(t) /\ pc'[t] = "idle") =>
            /\ Len(audit_log') = Len(audit_log) + 1
            /\ SubSeq(audit_log', 1, Len(audit_log)) = audit_log
            /\ LET e == audit_log'[Len(audit_log')]
               IN  /\ e.user = loc[t].user
                   /\ e.action \in {"initiate_payment", "rate_limit_exceeded",
                                     "fraud_detected", "initiate_payment_failed"}
                   /\ "request" \in DOMAIN e.details
                   /\ e.details.request = loc[t].req[1]]_vars

IsError(response) == response # None /\ "status_code" \in DOMAIN response

\* C13: every error leaves an audit entry.  A step that ends a request with
\* an error response (a rejected payment request, a lookup of an unknown
\* payment id), a step of a batch that counts a failed item, and the step
\* of a webhook dispatch that gives up after its last attempt each append
\* at least one entry to the audit log.
C13_NoErrorWithoutAuditEntry ==
  [][\A t \in Threads :
       /\ (pc[t] # "idle" /\ pc'[t] = "idle" /\ IsError(resp'[t])
             /\ pc[t] \in {"ip_limit", "ip_fraud", "ip_convert"}) =>
            Len(audit_log') > Len(audit_log)
       /\ (pc[t] = "idle" /\ pc'[t] = "idle" /\ resp'[t] # resp[t] /\ IsError(resp'[t])) =>
            Len(audit_log') > Len(audit_log)
       /\ (pc[t] = "batch_item" /\ pc'[t] = "batch_item"
             /\ loc'[t].failed # loc[t].failed) =>
            Len(audit_log') > Len(audit_log)
       /\ (pc[t] = "post" /\ pc'[t] = "idle" /\ sent'[t] = Some(FALSE)) =>
            Len(audit_log') > Len(audit_log)]_vars

\* C14: the audit log is append-only.  Every step of every handler and
\* task, in any interleaving, leaves the log as it was or adds entries at
\* its end: the entries it had are still there, unchanged and in their
\* places.
C14_AuditLogAppendOnly ==
  [][/\ Len(audit_log') >= Len(audit_log)
     /\ SubSeq(audit_log', 1, Len(audit_log)) = audit_log]_vars

\* C14 witness: the log holds the entries of a submission, a settlement
\* request, a settlement and an exhausted webhook dispatch, the handlers'
\* entries and the dispatcher's own entry, in the order they were written.
C14_Witness ==
  \E i, j, k, l \in DOMAIN audit_log :
    /\ i < j /\ j < k /\ k < l
    /\ audit_log[i].action = "initiate_payment"
    /\ audit_log[j].action = "instant_settle_requested"
    /\ audit_log[k].action = "instant_settle"
    /\ audit_log[l].action = "webhook_failed"
    /\ audit_log[l].user = None

\* ------------------------------------------------------------------ metrics
\* C15: the counters are monotonic.  No step of any interleaving of
\* concurrent submissions lowers total_requests, successful_payments,
\* rate_limit_hits or fraud_blocks.
C15_MetricsMonotonic ==
  [][\A k \in DOMAIN metrics : metrics'[k] >= metrics[k]]_vars

\* ----------------------------------------------------------------- dispatch
Registered(pid) == pid \in DOMAIN webhooks /\ webhooks[pid] # None

WebhookFailedEntries(pid) ==
  { i \in DOMAIN audit_log : /\ audit_log[i].action = "webhook_failed"
                             /\ audit_log[i].details.payment_id = pid }

\* C16: a send_webhook call for a payment with no registered url ends at
\* once: it makes no POST, writes no audit entry, returns (False) instead of
\* raising, and leaves the ledger, where the payment is settled with its
\* settlement time, as it is.
C16_NoSubscriptionDropsEvent ==
  [][\A t \in Threads :
       (pc[t] = "send_webhook" /\ pc'[t] # "send_webhook"
          /\ ~Registered(loc[t].payment_id[1])) =>
         /\ pc'[t] = "idle"
         /\ sent'[t] = Some(FALSE)
         /\ deliveries' = deliveries
         /\ audit_log' = audit_log
         /\ payments' = payments
         /\ payments[loc[t].payment_id[1]].status = "settled"
         /\ payments[loc[t].payment_id[1]].settlement_time # None
         /\ resp' = resp]_vars

\* C16 witness: payment 1 was settled with no url registered for it; the
\* task has ended, its send_webhook call returned False, no POST was made
\* and no webhook_failed entry was written.
C16_Witness ==
  /\ \A t \in Threads : pc[t] = "idle"
  /\ ~Registered(1)
  /\ \E t \in Threads : sent[t] = Some(FALSE)
  /\ 1 \in DOMAIN payments
  /\ Complete(payments[1])
  /\ SettleEntries(1) # {}
  /\ deliveries = <<>>
  /\ WebhookFailedEntries(1) = {}

\* ------------------------------------------------------------------- ledger
\* C17: a status read never returns an intermediate record: no response of
\* check_status, whatever the settlement tasks were doing when it ran, has
\* status settled and no settlement time.
C17_NoTornStatusRead ==
  \A t \in Threads :
    (/\ resp[t] # None
     /\ "kind" \in DOMAIN resp[t]
     /\ resp[t].kind = "PaymentStatus"
     /\ resp[t].status = "settled") => resp[t].settlement_time # None

C19_SettlingLeadsToSettled ==
  \A t \in Threads, pid \in PaymentIds :
    (/\ pc[t] = "settle_status"
     /\ loc[t].payment_id = Some(pid)
     /\ resp[t] # None
     /\ resp[t].status = "settling")
      ~> (pid \in DOMAIN payments /\ Complete(payments[pid]))

\* C19 witness: the request was answered settling, the payment is settled,
\* and the url registered for it never took a delivery: three attempts
\* raised and the dispatch gave up.
C19_Witness ==
  /\ \E t \in Threads : /\ resp[t] # None
                        /\ "status" \in DOMAIN resp[t]
                        /\ resp[t].status = "settling"
                        /\ pc[t] = "idle"
  /\ 1 \in DOMAIN payments
  /\ payments[1].status = "settled"
  /\ Registered(1)
  /\ Len(deliveries) = 3
  /\ \A i \in DOMAIN deliveries : deliveries[i].outcome = "raise"
  /\ WebhookFailedEntries(1) # {}

\* ------------------------------------------------------------ ledger growth
\* This step is a settlement task running a line of settle_payment for pid.
SettleStepFor(pid) ==
  \E t \in Threads : /\ pc[t] \in {"settle_status", "settle_time"}
                     /\ loc[t].payment_id = Some(pid)
                     /\ pc'[t] # pc[t]

\* C20: the ledger only grows and settlement is final.  Over every step, a
\* payment id of the ledger stays in the ledger with the request it was
\* stored with, a settled payment stays settled and a settlement time, once
\* set, stays set; a stored record changes only in a step of settle_payment
\* run by a settlement task for that payment.
C20_LedgerGrowsSettlementFinal ==
  [][\A pid \in DOMAIN payments :
       /\ pid \in DOMAIN payments'
       /\ payments'[pid].request = payments[pid].request
       /\ payments[pid].status = "settled" => payments'[pid].status = "settled"
       /\ payments[pid].settlement_time # None => payments'[pid].settlement_time # None
       /\ payments'[pid] # payments[pid] => SettleStepFor(pid)]_vars

\* C20 witness: payment 1 was settled, then payment 2 was created with
\* another request; payment 1 is still there, settled, with its request.
C20_Witness ==
  /\ Len(payments) = 2
  /\ Complete(payments[1])
  /\ payments[2].status = "pending"
  /\ payments[2].request # payments[1].request
  /\ \E i, j \in DOMAIN audit_log :
       /\ i < j
       /\ audit_log[i].action = "instant_settle"
       /\ audit_log[i].details.payment_id = 1
       /\ audit_log[j].action = "initiate_payment"
       /\ audit_log[j].details.payment_id = 2
       /\ audit_log[j].details.request = payments[2].request
====
